---- MODULE Spec2Model ----
(***************************************************************************)
(* State-machine model of the ChatRoom backend (FastAPI + Socket.IO +      *)
(* MongoDB): src/app/sockets.py, src/app/database.py, src/app/routes/*.py. *)
(*                                                                         *)
(* Every handler is a coroutine on one asyncio event loop.  A handler      *)
(* runs without interruption from one await to the next, so one action of  *)
(* the model is: the answer of the store operation the handler is waiting  *)
(* for, its resumption, and the synchronous code up to the next await.     *)
(* The first action of a handler is its synchronous prefix, up to the      *)
(* first store operation it issues.  An insert into the messages           *)
(* collection is an action of its own, apart from the resumption of the    *)
(* handler that awaits it: the store orders the inserts, the event loop    *)
(* orders the resumptions.                                                 *)
(*                                                                         *)
(* Strings are sequences of one-character strings, so that strip(),        *)
(* lower() and the substring test are computed and not assumed.            *)
(***************************************************************************)
EXTENDS Integers, Sequences, FiniteSets, TLC

\* ------------------------------------------------------------------ bounds

\* handler invocations (tasks) in one run; all of them may be in flight
\* at the same time
MaxTasks == 3
\* sends in a run of the assistant's dispatch
MaxMentionSends == 2

\* ------------------------------------------------------------ text values

\* Python None, where a string is expected
None == << "<None>" >>

Whitespace == {" "}

RECURSIVE LStrip(_)
LStrip(s) ==
    IF s = << >> THEN << >>
    ELSE IF Head(s) \in Whitespace THEN LStrip(Tail(s)) ELSE s

RECURSIVE RStrip(_)
RStrip(s) ==
    IF s = << >> THEN << >>
    ELSE IF s[Len(s)] \in Whitespace THEN RStrip(SubSeq(s, 1, Len(s) - 1)) ELSE s

\* str.strip()
Strip(s) == RStrip(LStrip(s))

LowerChar(c) ==
    CASE c = "A" -> "a"
      [] c = "I" -> "i"
      [] OTHER -> c

\* str.lower()
Lower(s) == [i \in 1..Len(s) |-> LowerChar(s[i])]

\* sub in s
Contains(s, sub) ==
    \E i \in 0..(Len(s) - Len(sub)) : SubSeq(s, i + 1, i + Len(sub)) = sub

\* Python truthiness of an optional string
Truthy(s) == s # None /\ s # << >>

\* the users of the runs
Alice == << "a" >>
Bob == << "b" >>
Usernames == {Alice, Bob}

\* The username parameter of a connection request's QUERY_STRING is None
\* when absent.

get_username_no_strip(raw) == IF raw = None \/ raw = << >> THEN None ELSE raw

get_username_from_query(raw) ==
    IF raw = None \/ raw = << >> THEN None ELSE Strip(raw)

\* the reserved sender of the assistant's replies
AssistantName == << "A", "I" >>

\* the mention token, compared with text.lower()
MentionToken == << "@", "a", "i" >>

\* "@ai" in text.lower()
MentionsAssistant(text) == Contains(Lower(text), MentionToken)

\* "Sorry, I couldn't process that request."
FallbackText == << "s", "o", "r", "r", "y" >>

\* ------------------------------------------------------------- room ids

HexChars == {"a", "A", "1", "2"}

RoomOne == << "a", "1" >>
RoomOneUpper == << "A", "1" >>
RoomTwo == << "a", "2" >>
Malformed == << "z" >>

\* the room_id strings that name a broadcast group in the runs
RoomIdStrings == {RoomOne, RoomOneUpper, RoomTwo}

\* ObjectId(room_id) succeeds on a hex string of the id length
IsObjectIdString(s) ==
    /\ s # None
    /\ Len(s) = Len(RoomOne)
    /\ \A i \in 1..Len(s) : s[i] \in HexChars

\* ObjectId(room_id): the bytes the hex digits denote, whatever their case
ObjectIdOf(s) == Lower(s)

RoomOids == {ObjectIdOf(s) : s \in RoomIdStrings}

NoRoom ==
    [exists |-> FALSE, name |-> << >>, owner_username |-> None,
     participant_usernames |-> << >>]

InSeq(x, s) == \E i \in 1..Len(s) : s[i] = x

\* ----------------------------------------------------------------- state

Handles == {"h1", "h2"}
NoSid == "-"

VARIABLES
    users,            \* store: the users collection, documents in insertion order
    rooms,            \* store: the rooms collection, by _id; NoRoom where absent
    messages,         \* store: the messages collection, in insertion order
    sid_to_username,  \* the session registry; None where the sid has no entry
    conn,             \* the server's connection table: "new", "open" or "closed"
    groups,           \* the server's rooms: room_id string -> sids entered
    emitted,          \* the sio.emit calls, in the order they were made
    tasks             \* the handler invocations, in the order they started

vars == << users, rooms, messages, sid_to_username, conn, groups, emitted, tasks >>

store == << users, rooms, messages >>

TaskIds == 1..MaxTasks

\* Besides the handler's locals a task keeps what the claims refer to: raw
\* (the input as received), storeOps (store operations issued), revoked and
\* denied (what the store held when the handler started and when it read the
\* room), gen_failed (generate_content raised).
BlankTask ==
    [op |-> "idle", pc |-> "idle", result |-> "", sid |-> NoSid,
     username |-> None, room_id |-> None, text |-> << >>,
     participant_username |-> None, room |-> NoRoom, reply |-> << >>,
     inserted_id |-> 0, raw |-> None, storeOps |-> 0, revoked |-> FALSE, denied |-> FALSE,
     gen_failed |-> FALSE, name |-> None, participants |-> << >>, todo |-> << >>]

Started(t) == tasks[t].op # "idle"
Finished(t) == tasks[t].pc = "done"
InFlight(t) == Started(t) /\ ~Finished(t)

\* the slot of the next handler invocation
NextSlot == Cardinality({t \in TaskIds : Started(t)}) + 1

\* the event loop is held by a synchronous call of some handler
LoopHeld == \E t \in TaskIds : tasks[t].pc = "generate"

CanStart == ~LoopHeld /\ NextSlot \in TaskIds

CanStep(t) == ~LoopHeld /\ InFlight(t)

\* the handler returns (or an exception leaves it): its locals are gone
Finish(t, res) ==
    [tasks EXCEPT ![t].pc = "done", ![t].result = res, ![t].room = NoRoom]

NewTask(op, pc, h) == [BlankTask EXCEPT !.op = op, !.pc = pc, !.sid = h]

\* ----------------------------------------------------------------- store

UserCount(u) == Cardinality({i \in 1..Len(users) : users[i].username = u})

\* db.users.find_one({"username": username})
find_user(u) == UserCount(u) > 0

users_insert_no_index(coll, u) ==
    [ok |-> TRUE, coll |-> Append(coll, [username |-> u])]

\* db.users.insert_one under the unique index on username: DuplicateKeyError
\* when a document with that username exists
users_insert_one(coll, u) ==
    IF \E i \in 1..Len(coll) : coll[i].username = u
    THEN [ok |-> FALSE, coll |-> coll]
    ELSE [ok |-> TRUE, coll |-> Append(coll, [username |-> u])]

\* db.rooms.find_one({"_id": oid})
find_room(oid) == rooms[oid]

\* username in room["participant_usernames"]
IsParticipant(username, room) == InSeq(username, room.participant_usernames)

\* the store holds no room of the task's room_id with the task's username
\* among its participants
NotParticipantNow(task) ==
    LET oid == ObjectIdOf(task.room_id)
    IN ~(rooms[oid].exists /\
         \E i \in DOMAIN rooms[oid].participant_usernames :
            rooms[oid].participant_usernames[i] = task.username)

\* ---------------------------------------------------------------- emits

\* the connections the server holds
Open == {h \in Handles : conn[h] = "open"}

\* An entry of the emit log keeps, besides the call's arguments, what the
\* claims refer to: the connections the server held (open), the connections
\* entered for the room under any spelling of its id (group) and the
\* connections the event was delivered to (rcpt).

\* sio.emit(event, ..., to=sid): the server delivers to the sid's own room,
\* which holds the sid while it is connected
EmitTo(log, t, event, detail, sid) ==
    Append(log, [event |-> event, detail |-> detail, task |-> t, sid |-> sid,
                 room |-> None, msg |-> 0, open |-> Open, group |-> {},
                 rcpt |-> IF conn[sid] = "open" THEN {sid} ELSE {}])

\* the sids a broadcast to room=room_id is delivered to
RoomRecipients(room_id) == groups[room_id]

\* the connections entered under any spelling of the room's id
RoomGroup(oid) ==
    UNION {groups[r] : r \in {x \in DOMAIN groups : ObjectIdOf(x) = oid}}

\* sio.emit("new_message", ..., room=room_id)
EmitRoom(log, t, room_id, msg) ==
    Append(log, [event |-> "new_message", detail |-> "", task |-> t,
                 sid |-> NoSid, room |-> room_id, msg |-> msg, open |-> Open,
                 group |-> RoomGroup(ObjectIdOf(room_id)),
                 rcpt |-> RoomRecipients(room_id)])

\* the handler emits an error to its own connection and returns
Reject(t, task, detail) ==
    /\ emitted' = EmitTo(emitted, t, "error", detail, task.sid)
    /\ tasks' = [tasks EXCEPT ![t] =
         [task EXCEPT !.pc = "done", !.result = detail, !.room = NoRoom]]

\* ------------------------------------------------------------- connect

\* connect(sid, environ): the synchronous prefix.  The server has entered
\* the sid in its connection table before it calls the handler; a handler
\* that returns False has the server drop the sid again.
ConnectStart(h, raw) ==
    /\ CanStart
    /\ conn[h] = "new"
    /\ LET t == NextSlot
           username == get_username_from_query(raw)
       IN IF ~Truthy(username)
          THEN /\ conn' = [conn EXCEPT ![h] = "closed"]
               /\ tasks' = [tasks EXCEPT ![t] =
                    [NewTask("connect", "done", h) EXCEPT
                        !.result = "rejected", !.raw = raw]]
          ELSE /\ conn' = [conn EXCEPT ![h] = "open"]
               /\ tasks' = [tasks EXCEPT ![t] =
                    [NewTask("connect", "goc_find", h) EXCEPT
                        !.username = username, !.raw = raw, !.storeOps = 1]]
    /\ UNCHANGED << store, sid_to_username, groups, emitted >>

\* create_room's loop over the participants of the request, up to the first
\* one it looks up in the users collection: blank names and the creator's
\* own name are passed over
RECURSIVE SkipNoLookup(_, _)
SkipNoLookup(todo, username) ==
    IF todo = << >> THEN << >>
    ELSE IF Strip(Head(todo)) = << >> \/ Strip(Head(todo)) = username
    THEN SkipNoLookup(Tail(todo), username)
    ELSE todo

\* what the caller of get_or_create_user does with the user it returns, up
\* to its next await
GocReturn(t) ==
    CASE tasks[t].op = "connect" ->
           /\ sid_to_username' =
                [sid_to_username EXCEPT ![tasks[t].sid] = tasks[t].username]
           /\ tasks' = Finish(t, "accepted")
      [] tasks[t].op \in {"remove_participant", "delete_room", "update_room",
                          "add_participant"} ->
           /\ tasks' = [tasks EXCEPT ![t].pc = "find_room", ![t].storeOps = @ + 1]
           /\ UNCHANGED sid_to_username
      [] tasks[t].op = "create_room" ->
           /\ LET todo == SkipNoLookup(tasks[t].todo, tasks[t].username)
              IN tasks' = [tasks EXCEPT
                   ![t].participants = << tasks[t].username >>,
                   ![t].todo = todo,
                   ![t].pc = IF todo = << >> THEN "insert_room" ELSE "check_user",
                   ![t].storeOps = @ + 1]
           /\ UNCHANGED sid_to_username
      [] OTHER ->
           /\ tasks' = Finish(t, "200")
           /\ UNCHANGED sid_to_username

\* get_or_create_user: find_one answers; the handler resumes
GocFind(t) ==
    /\ CanStep(t)
    /\ tasks[t].pc = "goc_find"
    /\ IF find_user(tasks[t].username)
       THEN GocReturn(t)
       ELSE /\ tasks' = [tasks EXCEPT ![t].pc = "goc_insert",
                                      ![t].storeOps = @ + 1]
            /\ UNCHANGED sid_to_username
    /\ UNCHANGED << store, conn, groups, emitted >>

\* get_or_create_user: insert_one answers; DuplicateKeyError is not caught
\* and leaves the handler
GocInsert(t) ==
    /\ CanStep(t)
    /\ tasks[t].pc = "goc_insert"
    /\ LET r == users_insert_one(users, tasks[t].username)
       IN IF r.ok
          THEN users' = r.coll /\ GocReturn(t)
          ELSE /\ tasks' = Finish(t, "DuplicateKeyError")
               /\ UNCHANGED << users, sid_to_username >>
    /\ UNCHANGED << rooms, messages, conn, groups, emitted >>

DisconnectKeepsGroups(h) ==
    /\ CanStart
    /\ conn[h] = "open"
    /\ conn' = [conn EXCEPT ![h] = "closed"]
    /\ sid_to_username' = [sid_to_username EXCEPT ![h] = None]
    /\ tasks' = [tasks EXCEPT ![NextSlot] =
         [NewTask("disconnect", "done", h) EXCEPT !.result = "ok"]]
    /\ UNCHANGED << store, groups, emitted >>

\* disconnect(sid): pop the registry entry; the server then takes the sid
\* out of every room and out of its connection table
Disconnect(h) ==
    /\ CanStart
    /\ conn[h] = "open"
    /\ conn' = [conn EXCEPT ![h] = "closed"]
    /\ sid_to_username' = [sid_to_username EXCEPT ![h] = None]
    /\ groups' = [r \in DOMAIN groups |-> groups[r] \ {h}]
    /\ tasks' = [tasks EXCEPT ![NextSlot] =
         [NewTask("disconnect", "done", h) EXCEPT !.result = "ok"]]
    /\ UNCHANGED << store, emitted >>

\* GET /users/me
GetMe(x) ==
    /\ CanStart
    /\ IF Strip(x) = << >>
       THEN tasks' = [tasks EXCEPT ![NextSlot] =
              [NewTask("get_me", "done", NoSid) EXCEPT !.result = "400"]]
       ELSE tasks' = [tasks EXCEPT ![NextSlot] =
              [NewTask("get_me", "goc_find", NoSid) EXCEPT
                  !.username = Strip(x), !.storeOps = 1]]
    /\ UNCHANGED << store, sid_to_username, conn, groups, emitted >>

\* ------------------------------------------------------------ join_room

\* the checks of join_room and leave_room before any await; "" when all pass
RoomEventError(username, room_id) ==
    IF ~Truthy(username) THEN "Not authenticated"
    ELSE IF ~Truthy(room_id) THEN "room_id is required"
    ELSE ""

EnterRoomToggles(h, room_id) ==
    IF conn[h] # "open" THEN [ok |-> FALSE, groups |-> groups]
    ELSE IF h \in groups[room_id]
    THEN [ok |-> TRUE, groups |-> [groups EXCEPT ![room_id] = @ \ {h}]]
    ELSE [ok |-> TRUE, groups |-> [groups EXCEPT ![room_id] = @ \cup {h}]]

EnterRoomUnchecked(h, room_id) ==
    [ok |-> TRUE, groups |-> [groups EXCEPT ![room_id] = @ \cup {h}]]

\* sio.enter_room(sid, room_id): the server looks the sid up in its
\* connection table and raises for a sid it does not hold
EnterRoom(h, room_id) ==
    IF conn[h] = "open"
    THEN [ok |-> TRUE, groups |-> [groups EXCEPT ![room_id] = @ \cup {h}]]
    ELSE [ok |-> FALSE, groups |-> groups]

\* join_room(sid, data): the synchronous prefix
JoinStart(h, room_id) ==
    /\ CanStart
    /\ conn[h] = "open"
    /\ LET t == NextSlot
           username == sid_to_username[h]
           task == [NewTask("join_room", "find_room", h) EXCEPT
                       !.username = username, !.room_id = room_id]
           err == RoomEventError(username, room_id)
       IN IF err # "" THEN Reject(t, task, err)
          ELSE IF ~IsObjectIdString(room_id)
          THEN Reject(t, task, "Invalid room_id format")
          ELSE /\ tasks' = [tasks EXCEPT ![t] = [task EXCEPT
                    !.storeOps = 1,
                    !.revoked = NotParticipantNow(task)]]
               /\ UNCHANGED emitted
    /\ UNCHANGED << store, sid_to_username, conn, groups >>

AuthorizeRoomOnly(t, room) == IF ~room.exists THEN "Room not found" ELSE ""

AuthorizeCached(t, room) ==
    IF tasks[t].sid \in groups[tasks[t].room_id] THEN ""
    ELSE IF ~room.exists THEN "Room not found"
    ELSE IF ~IsParticipant(tasks[t].username, room)
    THEN "Not a participant of this room"
    ELSE ""

\* the check of the room the store returned; "" when it passes
Authorize(t, room) ==
    IF ~room.exists THEN "Room not found"
    ELSE IF ~IsParticipant(tasks[t].username, room)
    THEN "Not a participant of this room"
    ELSE ""

\* join_room: find_one answers; the checks, enter_room and the joined_room
\* event follow without an await that suspends
JoinFindRoom(t) ==
    /\ CanStep(t)
    /\ tasks[t].op = "join_room"
    /\ tasks[t].pc = "find_room"
    /\ LET room == find_room(ObjectIdOf(tasks[t].room_id))
           err == Authorize(t, room)
           entered == EnterRoom(tasks[t].sid, tasks[t].room_id)
           denied == NotParticipantNow(tasks[t])
           task == [tasks[t] EXCEPT !.denied = denied]
       IN IF err # ""
          THEN Reject(t, task, err) /\ UNCHANGED groups
          ELSE IF entered.ok
          THEN /\ groups' = entered.groups
               /\ emitted' = EmitTo(emitted, t, "joined_room", "", tasks[t].sid)
               /\ tasks' = [tasks EXCEPT ![t] = [task EXCEPT
                    !.pc = "done", !.result = "joined", !.room = NoRoom]]
          ELSE /\ tasks' = [tasks EXCEPT ![t] = [task EXCEPT
                    !.pc = "done", !.result = "KeyError", !.room = NoRoom]]
               /\ UNCHANGED << groups, emitted >>
    /\ UNCHANGED << store, sid_to_username, conn >>

LeaveRoomEverywhere(h, room_id) ==
    /\ CanStart
    /\ conn[h] = "open"
    /\ LET t == NextSlot
           username == sid_to_username[h]
           task == [NewTask("leave_room", "done", h) EXCEPT
                       !.username = username, !.room_id = room_id]
           err == RoomEventError(username, room_id)
       IN IF err # "" THEN Reject(t, task, err) /\ UNCHANGED groups
          ELSE /\ groups' = [r \in DOMAIN groups |-> groups[r] \ {h}]
               /\ emitted' = EmitTo(emitted, t, "left_room", "", h)
               /\ tasks' = [tasks EXCEPT ![t] = [task EXCEPT !.result = "left"]]
    /\ UNCHANGED << store, sid_to_username, conn >>

\* leave_room(sid, data): no await of it suspends; leaving a room the sid is
\* not in is ignored by the server
LeaveRoom(h, room_id) ==
    /\ CanStart
    /\ conn[h] = "open"
    /\ LET t == NextSlot
           username == sid_to_username[h]
           task == [NewTask("leave_room", "done", h) EXCEPT
                       !.username = username, !.room_id = room_id]
           err == RoomEventError(username, room_id)
       IN IF err # "" THEN Reject(t, task, err) /\ UNCHANGED groups
          ELSE /\ groups' = [r \in DOMAIN groups |->
                    IF r = room_id THEN groups[r] \ {h} ELSE groups[r]]
               /\ emitted' = EmitTo(emitted, t, "left_room", "", h)
               /\ tasks' = [tasks EXCEPT ![t] = [task EXCEPT !.result = "left"]]
    /\ UNCHANGED << store, sid_to_username, conn >>

\* --------------------------------------------------------- send_message

SendErrorNoTextCheck(username, room_id, text) ==
    IF ~Truthy(username) THEN "Not authenticated"
    ELSE IF ~Truthy(room_id) THEN "room_id is required"
    ELSE IF ~IsObjectIdString(room_id) THEN "Invalid room_id format"
    ELSE ""

\* the checks of send_message before any await; "" when all pass
SendError(username, room_id, text) ==
    IF ~Truthy(username) THEN "Not authenticated"
    ELSE IF ~Truthy(room_id) THEN "room_id is required"
    ELSE IF text = << >> THEN "text cannot be empty"
    ELSE IF ~IsObjectIdString(room_id) THEN "Invalid room_id format"
    ELSE ""

\* send_message(sid, data): the synchronous prefix
SendStart(h, room_id, raw) ==
    /\ CanStart
    /\ conn[h] = "open"
    /\ LET t == NextSlot
           username == sid_to_username[h]
           text == Strip(raw)
           task == [NewTask("send_message", "find_room", h) EXCEPT
                       !.username = username, !.room_id = room_id, !.text = text,
                       !.raw = raw]
           err == SendError(username, room_id, text)
       IN IF err # "" THEN Reject(t, task, err)
          ELSE /\ tasks' = [tasks EXCEPT ![t] = [task EXCEPT
                    !.storeOps = 1,
                    !.revoked = NotParticipantNow(task)]]
               /\ UNCHANGED emitted
    /\ UNCHANGED << store, sid_to_username, conn, groups >>

\* send_message: find_one answers; the checks; insert_one is issued
SendFindRoom(t) ==
    /\ CanStep(t)
    /\ tasks[t].op = "send_message"
    /\ tasks[t].pc = "find_room"
    /\ LET room == find_room(ObjectIdOf(tasks[t].room_id))
           err == Authorize(t, room)
           task == [tasks[t] EXCEPT !.denied = NotParticipantNow(tasks[t])]
       IN IF err # "" THEN Reject(t, task, err)
          ELSE /\ tasks' = [tasks EXCEPT ![t] = [task EXCEPT
                    !.pc = "insert", !.room = room, !.storeOps = @ + 1]]
               /\ UNCHANGED emitted
    /\ UNCHANGED << store, sid_to_username, conn, groups >>

\* db.messages.insert_one: the _id is the position in the collection.  A
\* document also keeps whether the store held its room when it was inserted.
InsertMessage(t, sender, text) ==
    Append(messages, [room_id |-> ObjectIdOf(tasks[t].room_id),
                      sender_username |-> sender, text |-> text, task |-> t,
                      room_existed |-> rooms[ObjectIdOf(tasks[t].room_id)].exists])

\* the place of a deleted document: its _id is not given again
Deleted ==
    [room_id |-> << >>, sender_username |-> None, text |-> << >>, task |-> 0,
     room_existed |-> FALSE]

\* send_message: insert_one is applied by the store
SendInsert(t) ==
    /\ CanStep(t)
    /\ tasks[t].pc = "insert"
    /\ messages' = InsertMessage(t, tasks[t].username, tasks[t].text)
    /\ tasks' = [tasks EXCEPT ![t].pc = "inserted", ![t].inserted_id = Len(messages) + 1]
    /\ UNCHANGED << users, rooms, sid_to_username, conn, groups, emitted >>

\* send_message: insert_one raises (the store is unavailable); there is no
\* try around it, so the exception leaves the handler and the server's event
\* task ends with it
SendInsertFails(t) ==
    /\ CanStep(t)
    /\ tasks[t].pc = "insert"
    /\ tasks' = Finish(t, "PyMongoError")
    /\ UNCHANGED << store, sid_to_username, conn, groups, emitted >>

SendBroadcastSkipped(t) ==
    /\ CanStep(t)
    /\ tasks[t].pc = "inserted"
    /\ tasks' = [tasks EXCEPT ![t].pc = "emitted"]
    /\ UNCHANGED << store, sid_to_username, conn, groups, emitted >>

\* send_message: the handler resumes with the insert's result and makes the
\* new_message broadcast
SendBroadcast(t) ==
    /\ CanStep(t)
    /\ tasks[t].pc = "inserted"
    /\ emitted' = EmitRoom(emitted, t, tasks[t].room_id, tasks[t].inserted_id)
    /\ tasks' = [tasks EXCEPT ![t].pc = "emitted"]
    /\ UNCHANGED << store, sid_to_username, conn, groups >>

\* send_message: the broadcast's await returns; the mention check; with a
\* mention get_ai_response runs to the synchronous generate_content call
SendAfterEmit(t) ==
    /\ CanStep(t)
    /\ tasks[t].pc = "emitted"
    /\ IF MentionsAssistant(tasks[t].text)
       THEN tasks' = [tasks EXCEPT ![t].pc = "generate"]
       ELSE tasks' = Finish(t, "sent")
    /\ UNCHANGED << store, sid_to_username, conn, groups, emitted >>

\* what generate_content can do: return a text or raise
Generations == {<< "o", "k" >>, << " " >>, None}

AiResponseNoFallback(generation) ==
    IF generation = None THEN << >> ELSE Strip(generation)

SendAfterAiEmitRechecks(t) ==
    /\ CanStep(t)
    /\ tasks[t].pc = "ai_inserted"
    /\ emitted' = EmitRoom(emitted, t, tasks[t].room_id, tasks[t].inserted_id)
    /\ IF MentionsAssistant(tasks[t].reply)
       THEN tasks' = [tasks EXCEPT ![t].pc = "generate"]
       ELSE tasks' = Finish(t, "sent")
    /\ UNCHANGED << store, sid_to_username, conn, groups >>

\* get_ai_response: response.text.strip(), or the fallback when the call
\* raised
AiResponseText(generation) ==
    IF generation = None THEN FallbackText ELSE Strip(generation)

\* generate_content returns and frees the event loop; the assistant's
\* insert_one is issued
GenerateReturns(t, generation) ==
    /\ tasks[t].pc = "generate"
    /\ tasks' = [tasks EXCEPT ![t].pc = "ai_insert",
                              ![t].reply = AiResponseText(generation),
                              ![t].gen_failed = (generation = None),
                              ![t].storeOps = @ + 1]
    /\ UNCHANGED << store, sid_to_username, conn, groups, emitted >>

\* send_message: the assistant's insert_one is applied by the store
AiInsert(t) ==
    /\ CanStep(t)
    /\ tasks[t].pc = "ai_insert"
    /\ messages' = InsertMessage(t, AssistantName, tasks[t].reply)
    /\ tasks' = [tasks EXCEPT ![t].pc = "ai_inserted", ![t].inserted_id = Len(messages) + 1]
    /\ UNCHANGED << users, rooms, sid_to_username, conn, groups, emitted >>

\* send_message: the handler resumes, broadcasts the reply and returns
AiBroadcast(t) ==
    /\ CanStep(t)
    /\ tasks[t].pc = "ai_inserted"
    /\ emitted' = EmitRoom(emitted, t, tasks[t].room_id, tasks[t].inserted_id)
    /\ tasks' = Finish(t, "sent")
    /\ UNCHANGED << store, sid_to_username, conn, groups >>

\* --------------------------------------------------- remove_participant

\* DELETE /rooms/{room_id}/participants/{participant_username}: the
\* synchronous prefix
RemoveStart(room_id, participant, x_username) ==
    /\ CanStart
    /\ LET t == NextSlot
           task == [NewTask("remove_participant", "goc_find", NoSid) EXCEPT
                       !.username = Strip(x_username), !.room_id = room_id,
                       !.participant_username = Strip(participant)]
       IN IF ~IsObjectIdString(room_id)
          THEN tasks' = [tasks EXCEPT ![t] =
                 [task EXCEPT !.pc = "done", !.result = "400"]]
          ELSE tasks' = [tasks EXCEPT ![t] = [task EXCEPT !.storeOps = 1]]
    /\ UNCHANGED << store, sid_to_username, conn, groups, emitted >>

\* remove_participant: find_one answers; the checks; $pull is issued when
\* the participant is in the list
RemoveFindRoom(t) ==
    /\ CanStep(t)
    /\ tasks[t].op = "remove_participant"
    /\ tasks[t].pc = "find_room"
    /\ LET room == find_room(ObjectIdOf(tasks[t].room_id))
       IN tasks' =
            IF ~room.exists THEN Finish(t, "404")
            ELSE IF room.owner_username # tasks[t].username THEN Finish(t, "403")
            ELSE IF tasks[t].participant_username = room.owner_username
            THEN Finish(t, "400")
            ELSE IF IsParticipant(tasks[t].participant_username, room)
            THEN [tasks EXCEPT ![t].pc = "pull", ![t].storeOps = @ + 1]
            ELSE Finish(t, "200")
    /\ UNCHANGED << store, sid_to_username, conn, groups, emitted >>

\* s without the elements equal to x
RECURSIVE Pull(_, _)
Pull(s, x) ==
    IF s = << >> THEN << >>
    ELSE IF Head(s) = x THEN Pull(Tail(s), x)
    ELSE << Head(s) >> \o Pull(Tail(s), x)

RemovePullPurges(t) ==
    /\ CanStep(t)
    /\ tasks[t].pc = "pull"
    /\ LET oid == ObjectIdOf(tasks[t].room_id)
       IN rooms' =
            IF rooms[oid].exists
            THEN [rooms EXCEPT ![oid].participant_usernames =
                    Pull(@, tasks[t].participant_username)]
            ELSE rooms
    /\ groups' = [r \in DOMAIN groups |->
         IF ObjectIdOf(r) = ObjectIdOf(tasks[t].room_id)
         THEN {h \in groups[r] :
                 sid_to_username[h] # tasks[t].participant_username}
         ELSE groups[r]]
    /\ tasks' = [tasks EXCEPT ![t].pc = "refetch", ![t].storeOps = @ + 1]
    /\ UNCHANGED << users, messages, sid_to_username, conn, emitted >>

\* remove_participant: update_one $pull answers; the room is read again
RemovePull(t) ==
    /\ CanStep(t)
    /\ tasks[t].pc = "pull"
    /\ LET oid == ObjectIdOf(tasks[t].room_id)
       IN rooms' =
            IF rooms[oid].exists
            THEN [rooms EXCEPT ![oid].participant_usernames =
                    Pull(@, tasks[t].participant_username)]
            ELSE rooms
    /\ tasks' = [tasks EXCEPT ![t].pc = "refetch", ![t].storeOps = @ + 1]
    /\ UNCHANGED << users, messages, sid_to_username, conn, groups, emitted >>

\* remove_participant: the second find_one answers; the response is built
RemoveRefetch(t) ==
    /\ CanStep(t)
    /\ tasks[t].pc = "refetch"
    /\ tasks' = Finish(t, "200")
    /\ UNCHANGED << store, sid_to_username, conn, groups, emitted >>

\* ---------------------------------------------------------- create_room

\* POST /rooms: the synchronous prefix
CreateStart(name, participant_usernames, x_username) ==
    /\ CanStart
    /\ tasks' = [tasks EXCEPT ![NextSlot] =
         [NewTask("create_room", "goc_find", NoSid) EXCEPT
             !.username = Strip(x_username), !.name = name,
             !.todo = participant_usernames, !.storeOps = 1]]
    /\ UNCHANGED << store, sid_to_username, conn, groups, emitted >>

\* create_room: the find_one of a participant answers; the loop goes on to
\* the next lookup, or insert_one is issued
CreateCheckUser(t) ==
    /\ CanStep(t)
    /\ tasks[t].pc = "check_user"
    /\ LET participant == Strip(Head(tasks[t].todo))
           todo == SkipNoLookup(Tail(tasks[t].todo), tasks[t].username)
       IN tasks' =
            IF ~find_user(participant) THEN Finish(t, "400")
            ELSE [tasks EXCEPT
                   ![t].participants =
                       IF InSeq(participant, @) THEN @ ELSE Append(@, participant),
                   ![t].todo = todo,
                   ![t].pc = IF todo = << >> THEN "insert_room" ELSE "check_user",
                   ![t].storeOps = @ + 1]
    /\ UNCHANGED << store, sid_to_username, conn, groups, emitted >>

\* the rooms collection has a place for a new document
FreeOids == {o \in RoomOids : ~rooms[o].exists}

\* create_room: insert_one answers; the handler returns the room
CreateInsert(t) ==
    /\ CanStep(t)
    /\ tasks[t].pc = "insert_room"
    /\ FreeOids # {}
    /\ LET oid == CHOOSE o \in FreeOids : TRUE
       IN rooms' = [rooms EXCEPT ![oid] =
            [exists |-> TRUE, name |-> tasks[t].name,
             owner_username |-> tasks[t].username,
             participant_usernames |-> tasks[t].participants]]
    /\ tasks' = Finish(t, "200")
    /\ UNCHANGED << users, messages, sid_to_username, conn, groups, emitted >>

\* ---------------------------------------------------------- update_room

\* list(set(names)): every name once; the order of a set is not specified,
\* here it is the order of the first occurrences
RECURSIVE Dedupe(_)
Dedupe(names) ==
    IF names = << >> THEN << >>
    ELSE IF InSeq(names[Len(names)], SubSeq(names, 1, Len(names) - 1))
    THEN Dedupe(SubSeq(names, 1, Len(names) - 1))
    ELSE Append(Dedupe(SubSeq(names, 1, Len(names) - 1)), names[Len(names)])

UpdateParticipantsAsGiven(names, username) == Dedupe(names)

\* the participants update_room writes: the names of the request, and the
\* caller's when it is not among them
UpdateParticipants(names, username) ==
    IF InSeq(username, Dedupe(names)) THEN Dedupe(names)
    ELSE Append(Dedupe(names), username)

\* PATCH /rooms/{room_id}: the synchronous prefix; name and
\* participant_usernames are None when the request leaves them out
UpdateStart(room_id, name, participant_usernames, x_username) ==
    /\ CanStart
    /\ LET t == NextSlot
           task == [NewTask("update_room", "goc_find", NoSid) EXCEPT
                       !.username = Strip(x_username), !.room_id = room_id,
                       !.name = name, !.todo = participant_usernames]
       IN IF ~IsObjectIdString(room_id)
          THEN tasks' = [tasks EXCEPT ![t] =
                 [task EXCEPT !.pc = "done", !.result = "400"]]
          ELSE tasks' = [tasks EXCEPT ![t] = [task EXCEPT !.storeOps = 1]]
    /\ UNCHANGED << store, sid_to_username, conn, groups, emitted >>

\* update_room: find_one answers; the checks; the update document is built
\* up to the first get_or_create_user of a participant, or to update_one
UpdateFindRoom(t) ==
    /\ CanStep(t)
    /\ tasks[t].op = "update_room"
    /\ tasks[t].pc = "find_room"
    /\ LET room == find_room(ObjectIdOf(tasks[t].room_id))
           participants == UpdateParticipants(tasks[t].todo, tasks[t].username)
       IN tasks' =
            IF ~room.exists THEN Finish(t, "404")
            ELSE IF room.owner_username # tasks[t].username THEN Finish(t, "403")
            ELSE IF tasks[t].todo # None
            THEN [tasks EXCEPT ![t].participants = participants,
                               ![t].todo = participants,
                               ![t].pc = "upd_find", ![t].storeOps = @ + 1]
            ELSE IF tasks[t].name # None
            THEN [tasks EXCEPT ![t].pc = "set", ![t].storeOps = @ + 1]
            ELSE Finish(t, "200")
    /\ UNCHANGED << store, sid_to_username, conn, groups, emitted >>

\* update_room: the loop of get_or_create_user moves to the next participant,
\* or update_one is issued
UpdateNextUser(t) ==
    [tasks EXCEPT ![t].todo = Tail(@),
                  ![t].pc = IF Tail(tasks[t].todo) = << >> THEN "set" ELSE "upd_find",
                  ![t].storeOps = @ + 1]

\* update_room: get_or_create_user of a participant, find_one answers
UpdateGocFind(t) ==
    /\ CanStep(t)
    /\ tasks[t].pc = "upd_find"
    /\ tasks' = IF find_user(Head(tasks[t].todo)) THEN UpdateNextUser(t)
                ELSE [tasks EXCEPT ![t].pc = "upd_insert", ![t].storeOps = @ + 1]
    /\ UNCHANGED << store, sid_to_username, conn, groups, emitted >>

\* update_room: get_or_create_user of a participant, insert_one answers
UpdateGocInsert(t) ==
    /\ CanStep(t)
    /\ tasks[t].pc = "upd_insert"
    /\ LET r == users_insert_one(users, Head(tasks[t].todo))
       IN IF r.ok
          THEN users' = r.coll /\ tasks' = UpdateNextUser(t)
          ELSE users' = users /\ tasks' = Finish(t, "DuplicateKeyError")
    /\ UNCHANGED << rooms, messages, sid_to_username, conn, groups, emitted >>

\* update_room: update_one $set answers; the room is read again
UpdateSet(t) ==
    /\ CanStep(t)
    /\ tasks[t].pc = "set"
    /\ LET oid == ObjectIdOf(tasks[t].room_id)
           named == IF tasks[t].name # None
                    THEN [rooms[oid] EXCEPT !.name = tasks[t].name]
                    ELSE rooms[oid]
           doc == IF tasks[t].participants # << >>
                  THEN [named EXCEPT !.participant_usernames = tasks[t].participants]
                  ELSE named
       IN rooms' = IF rooms[oid].exists THEN [rooms EXCEPT ![oid] = doc] ELSE rooms
    /\ tasks' = [tasks EXCEPT ![t].pc = "refetch", ![t].storeOps = @ + 1]
    /\ UNCHANGED << users, messages, sid_to_username, conn, groups, emitted >>

\* ------------------------------------------------------ add_participant

\* POST /rooms/{room_id}/participants/{participant_username}: the
\* synchronous prefix
AddStart(room_id, participant, x_username) ==
    /\ CanStart
    /\ LET t == NextSlot
           task == [NewTask("add_participant", "goc_find", NoSid) EXCEPT
                       !.username = Strip(x_username), !.room_id = room_id,
                       !.participant_username = Strip(participant)]
       IN IF ~IsObjectIdString(room_id)
          THEN tasks' = [tasks EXCEPT ![t] =
                 [task EXCEPT !.pc = "done", !.result = "400"]]
          ELSE tasks' = [tasks EXCEPT ![t] = [task EXCEPT !.storeOps = 1]]
    /\ UNCHANGED << store, sid_to_username, conn, groups, emitted >>

\* add_participant: find_one of the room answers; the checks; the find_one
\* of the participant is issued
AddFindRoom(t) ==
    /\ CanStep(t)
    /\ tasks[t].op = "add_participant"
    /\ tasks[t].pc = "find_room"
    /\ LET room == find_room(ObjectIdOf(tasks[t].room_id))
       IN tasks' =
            IF ~room.exists THEN Finish(t, "404")
            ELSE IF room.owner_username # tasks[t].username THEN Finish(t, "403")
            ELSE [tasks EXCEPT ![t].pc = "add_find_user", ![t].room = room,
                               ![t].storeOps = @ + 1]
    /\ UNCHANGED << store, sid_to_username, conn, groups, emitted >>

\* add_participant: find_one of the participant answers; $push is issued
\* when the room that was read does not list the participant
AddFindUser(t) ==
    /\ CanStep(t)
    /\ tasks[t].pc = "add_find_user"
    /\ tasks' =
         IF ~find_user(tasks[t].participant_username) THEN Finish(t, "400")
         ELSE IF ~IsParticipant(tasks[t].participant_username, tasks[t].room)
         THEN [tasks EXCEPT ![t].pc = "push", ![t].storeOps = @ + 1]
         ELSE Finish(t, "200")
    /\ UNCHANGED << store, sid_to_username, conn, groups, emitted >>

\* add_participant: update_one $push answers; the room is read again
AddPush(t) ==
    /\ CanStep(t)
    /\ tasks[t].pc = "push"
    /\ LET oid == ObjectIdOf(tasks[t].room_id)
       IN rooms' =
            IF rooms[oid].exists
            THEN [rooms EXCEPT ![oid].participant_usernames =
                    Append(@, tasks[t].participant_username)]
            ELSE rooms
    /\ tasks' = [tasks EXCEPT ![t].pc = "refetch", ![t].storeOps = @ + 1]
    /\ UNCHANGED << users, messages, sid_to_username, conn, groups, emitted >>

\* ---------------------------------------------------------- delete_room

\* DELETE /rooms/{room_id}: the synchronous prefix
DeleteStart(room_id, x_username) ==
    /\ CanStart
    /\ LET t == NextSlot
           task == [NewTask("delete_room", "goc_find", NoSid) EXCEPT
                       !.username = Strip(x_username), !.room_id = room_id]
       IN IF ~IsObjectIdString(room_id)
          THEN tasks' = [tasks EXCEPT ![t] =
                 [task EXCEPT !.pc = "done", !.result = "400"]]
          ELSE tasks' = [tasks EXCEPT ![t] = [task EXCEPT !.storeOps = 1]]
    /\ UNCHANGED << store, sid_to_username, conn, groups, emitted >>

\* delete_room: find_one answers; the checks; delete_many is issued
DeleteFindRoom(t) ==
    /\ CanStep(t)
    /\ tasks[t].op = "delete_room"
    /\ tasks[t].pc = "find_room"
    /\ LET room == find_room(ObjectIdOf(tasks[t].room_id))
       IN tasks' =
            IF ~room.exists THEN Finish(t, "404")
            ELSE IF room.owner_username # tasks[t].username THEN Finish(t, "403")
            ELSE [tasks EXCEPT ![t].pc = "delete_many", ![t].storeOps = @ + 1]
    /\ UNCHANGED << store, sid_to_username, conn, groups, emitted >>

\* delete_room: delete_many({"room_id": oid}) answers; delete_one is issued
DeleteMany(t) ==
    /\ CanStep(t)
    /\ tasks[t].pc = "delete_many"
    /\ messages' = [k \in 1..Len(messages) |->
         IF messages[k].room_id = ObjectIdOf(tasks[t].room_id)
         THEN Deleted ELSE messages[k]]
    /\ tasks' = [tasks EXCEPT ![t].pc = "delete_one", ![t].storeOps = @ + 1]
    /\ UNCHANGED << users, rooms, sid_to_username, conn, groups, emitted >>

\* delete_room: delete_one({"_id": oid}) answers; the handler returns
DeleteOne(t) ==
    /\ CanStep(t)
    /\ tasks[t].pc = "delete_one"
    /\ rooms' = [rooms EXCEPT ![ObjectIdOf(tasks[t].room_id)] = NoRoom]
    /\ tasks' = Finish(t, "200")
    /\ UNCHANGED << users, messages, sid_to_username, conn, groups, emitted >>

\* ---------------------------------------------------------------- runs

\* --- a fresh store and no connection: connect, disconnect and GET /users/me

Init ==
    /\ users = << >>
    /\ rooms = [o \in RoomOids |-> NoRoom]
    /\ messages = << >>
    /\ sid_to_username = [h \in Handles |-> None]
    /\ conn = [h \in Handles |-> "new"]
    /\ groups = [r \in RoomIdStrings |-> {}]
    /\ emitted = << >>
    /\ tasks = [t \in TaskIds |-> BlankTask]

QueryUsernames == {None, << " " >>, << " ", "b" >>}

NextUsers ==
    \/ \E h \in Handles, raw \in QueryUsernames : ConnectStart(h, raw)
    \/ \E h \in Handles : Disconnect(h)
    \/ GetMe(<< "b", " " >>)
    \/ \E t \in TaskIds : GocFind(t)
    \/ \E t \in TaskIds : GocInsert(t)

SpecUsers == Init /\ [][NextUsers]_vars

\* --- a running server: both connections registered, the rooms in the store

RoomRecord(name, owner, participants) ==
    [exists |-> TRUE, name |-> name, owner_username |-> owner,
     participant_usernames |-> participants]

\* h1 is Alice's connection and h2 is Bob's; Alice owns the first room and
\* Bob is a participant of it; Bob alone is in the second room, if there is
\* one.  joined is the broadcast group of the first room.
Running(second, joined) ==
    /\ users = << [username |-> Alice], [username |-> Bob] >>
    /\ rooms = [o \in RoomOids |->
                  IF o = ObjectIdOf(RoomOne)
                  THEN RoomRecord(<< "m" >>, Alice, << Alice, Bob >>)
                  ELSE second]
    /\ messages = << >>
    /\ sid_to_username = [h \in Handles |-> IF h = "h1" THEN Alice ELSE Bob]
    /\ conn = [h \in Handles |-> "open"]
    /\ groups = [r \in RoomIdStrings |-> IF r = RoomOne THEN joined ELSE {}]
    /\ emitted = << >>
    /\ tasks = [t \in TaskIds |-> BlankTask]

\* the same server where only the connections in registered have an entry in
\* the session registry: the connect handler of the others has not written
\* it
Serving(second, joined, registered) ==
    /\ users = << [username |-> Alice], [username |-> Bob] >>
    /\ rooms = [o \in RoomOids |->
                  IF o = ObjectIdOf(RoomOne)
                  THEN RoomRecord(<< "m" >>, Alice, << Alice, Bob >>)
                  ELSE second]
    /\ messages = << >>
    /\ sid_to_username = [h \in Handles |->
                            IF h \notin registered THEN None
                            ELSE IF h = "h1" THEN Alice ELSE Bob]
    /\ conn = [h \in Handles |-> "open"]
    /\ groups = [r \in RoomIdStrings |-> IF r = RoomOne THEN joined ELSE {}]
    /\ emitted = << >>
    /\ tasks = [t \in TaskIds |-> BlankTask]

BobsRoom == RoomRecord(<< "n" >>, Bob, << Bob >>)

PlainText == << "h", " " >>
MentionText == << "@", "A", "i" >>

\* --- sends without a mention: two senders in the first room, and Alice
\* sending to the second room, which is Bob's or does not exist

InitSend == \E second \in {NoRoom, BobsRoom} : Running(second, Handles)

SendInputs == {<< "h1", RoomOne >>, << "h2", RoomOne >>, << "h1", RoomTwo >>}

NextSend ==
    \/ \E i \in SendInputs : SendStart(i[1], i[2], PlainText)
    \/ \E t \in TaskIds : SendFindRoom(t)
    \/ \E t \in TaskIds : SendInsert(t)
    \/ \E t \in TaskIds : SendBroadcast(t)
    \/ \E t \in TaskIds : SendAfterEmit(t)

SpecSend == InitSend /\ [][NextSend]_vars

\* --- sends with a mention in the first room, and Bob sending to his room

InitMention == Running(BobsRoom, Handles)

MentionInputs ==
    {<< "h1", RoomOne, MentionText >>, << "h2", RoomOne, MentionText >>,
     << "h2", RoomTwo, PlainText >>}

NextMention ==
    \/ \E i \in MentionInputs :
         NextSlot <= MaxMentionSends /\ SendStart(i[1], i[2], i[3])
    \/ \E t \in TaskIds : SendFindRoom(t)
    \/ \E t \in TaskIds : SendInsert(t)
    \/ \E t \in TaskIds : SendBroadcast(t)
    \/ \E t \in TaskIds : SendAfterEmit(t)
    \/ \E t \in TaskIds : GenerateReturns(t, << "o", "k" >>)
    \/ \E t \in TaskIds : AiInsert(t)
    \/ \E t \in TaskIds : AiBroadcast(t)

SpecMention == InitMention /\ [][NextMention]_vars

\* The event loop resumes every handler that is ready, and the store answers
\* every operation.  Nothing is assumed of the generation service: the call
\* may never return.
FairMention ==
    /\ SpecMention
    /\ \A t \in TaskIds :
         /\ WF_vars(SendFindRoom(t))
         /\ WF_vars(SendInsert(t))
         /\ WF_vars(SendBroadcast(t))
         /\ WF_vars(SendAfterEmit(t))
         /\ WF_vars(AiInsert(t))
         /\ WF_vars(AiBroadcast(t))

\* --- joins, leaves and disconnects around a broadcast

InitJoin == \E joined \in {{}, {"h2"}} : Running(NoRoom, joined)

NextJoin ==
    \/ \E h \in Handles : Disconnect(h)
    \/ \E h \in Handles : JoinStart(h, RoomOne)
    \/ LeaveRoom("h1", RoomOne)
    \/ \E h \in Handles : SendStart(h, RoomOne, PlainText)
    \/ \E t \in TaskIds : JoinFindRoom(t)
    \/ \E t \in TaskIds : SendFindRoom(t)
    \/ \E t \in TaskIds : SendInsert(t)
    \/ \E t \in TaskIds : SendBroadcast(t)
    \/ \E t \in TaskIds : SendAfterEmit(t)

SpecJoin == InitJoin /\ [][NextJoin]_vars

\* --- the owner removes Bob from the first room while Bob joins and sends

InitRevoke == \E joined \in {{}, {"h2"}} : Running(NoRoom, joined)

NextRevoke ==
    \/ RemoveStart(RoomOne, Bob, Alice)
    \/ JoinStart("h2", RoomOne)
    \/ SendStart("h2", RoomOne, PlainText)
    \/ \E t \in TaskIds : GocFind(t)
    \/ \E t \in TaskIds : RemoveFindRoom(t)
    \/ \E t \in TaskIds : RemovePull(t)
    \/ \E t \in TaskIds : RemoveRefetch(t)
    \/ \E t \in TaskIds : JoinFindRoom(t)
    \/ \E t \in TaskIds : SendFindRoom(t)
    \/ \E t \in TaskIds : SendInsert(t)
    \/ \E t \in TaskIds : SendBroadcast(t)
    \/ \E t \in TaskIds : SendAfterEmit(t)

SpecRevoke == InitRevoke /\ [][NextRevoke]_vars

\* --- sends whose text is empty or blank, from a registered and from an
\* unregistered connection, with and without a well-formed room_id

InitEmpty == Serving(NoRoom, {"h1"}, {"h1"})

EmptyTexts == {<< >>, << " ", " " >>}

EmptyInputs ==
    {<< h, r, x >> : h \in Handles, r \in {RoomOne, None, Malformed},
                     x \in EmptyTexts \cup {PlainText}}

NextEmpty ==
    \/ \E i \in EmptyInputs : SendStart(i[1], i[2], i[3])
    \/ \E t \in TaskIds : SendFindRoom(t)
    \/ \E t \in TaskIds : SendInsert(t)
    \/ \E t \in TaskIds : SendBroadcast(t)
    \/ \E t \in TaskIds : SendAfterEmit(t)

SpecEmpty == InitEmpty /\ [][NextEmpty]_vars

\* --- a send with a mention whose generation returns a text, which has the
\* mention token in it, returns nothing but whitespace, or raises; another
\* send without a mention

ReplyGenerations == {<< " ", "@", "A", "I" >>, << " " >>, None}

InitReply == Running(NoRoom, Handles)

ReplyInputs ==
    {<< "h1", RoomOne, MentionText >>, << "h2", RoomOne, PlainText >>}

NextReply ==
    \/ \E i \in ReplyInputs :
         NextSlot <= MaxMentionSends /\ SendStart(i[1], i[2], i[3])
    \/ \E t \in TaskIds : SendFindRoom(t)
    \/ \E t \in TaskIds : SendInsert(t)
    \/ \E t \in TaskIds : SendBroadcast(t)
    \/ \E t \in TaskIds : SendAfterEmit(t)
    \/ \E t \in TaskIds, g \in ReplyGenerations : GenerateReturns(t, g)
    \/ \E t \in TaskIds : AiInsert(t)
    \/ \E t \in TaskIds : AiBroadcast(t)

SpecReply == InitReply /\ [][NextReply]_vars

\* --- connections that drop while sends to their room are in flight

InitDrop == Running(NoRoom, Handles)

NextDrop ==
    \/ \E h \in Handles : SendStart(h, RoomOne, PlainText)
    \/ \E h \in Handles : Disconnect(h)
    \/ \E t \in TaskIds : SendFindRoom(t)
    \/ \E t \in TaskIds : SendInsert(t)
    \/ \E t \in TaskIds : SendBroadcast(t)
    \/ \E t \in TaskIds : SendAfterEmit(t)

SpecDrop == InitDrop /\ [][NextDrop]_vars

\* --- sends while the store may refuse an insert

InitStoreDown == Running(NoRoom, Handles)

NextStoreDown ==
    \/ \E h \in Handles : SendStart(h, RoomOne, PlainText)
    \/ \E t \in TaskIds : SendFindRoom(t)
    \/ \E t \in TaskIds : SendInsert(t)
    \/ \E t \in TaskIds : SendInsertFails(t)
    \/ \E t \in TaskIds : SendBroadcast(t)
    \/ \E t \in TaskIds : SendAfterEmit(t)

SpecStoreDown == InitStoreDown /\ [][NextStoreDown]_vars

\* --- joins and leaves of the first room, named by either spelling of its
\* id, and sends to it

InitRooms == \E joined \in {{}, {"h2"}} : Running(NoRoom, joined)

RoomSpellings == {RoomOne, RoomOneUpper}

NextRooms ==
    \/ \E r \in RoomSpellings : JoinStart("h1", r)
    \/ \E r \in RoomSpellings : LeaveRoom("h1", r)
    \/ LeaveRoom("h2", RoomOne)
    \/ SendStart("h2", RoomOne, PlainText)
    \/ \E t \in TaskIds : JoinFindRoom(t)
    \/ \E t \in TaskIds : SendFindRoom(t)
    \/ \E t \in TaskIds : SendInsert(t)
    \/ \E t \in TaskIds : SendBroadcast(t)
    \/ \E t \in TaskIds : SendAfterEmit(t)

SpecRooms == InitRooms /\ [][NextRooms]_vars

\* --- the owner removes Bob from the first room while both connections are
\* in its group and send to it

InitRemoved == Running(NoRoom, Handles)

NextRemoved ==
    \/ RemoveStart(RoomOne, Bob, Alice)
    \/ \E h \in Handles : SendStart(h, RoomOne, PlainText)
    \/ LeaveRoom("h2", RoomOne)
    \/ \E t \in TaskIds : GocFind(t)
    \/ \E t \in TaskIds : RemoveFindRoom(t)
    \/ \E t \in TaskIds : RemovePull(t)
    \/ \E t \in TaskIds : RemoveRefetch(t)
    \/ \E t \in TaskIds : SendFindRoom(t)
    \/ \E t \in TaskIds : SendInsert(t)
    \/ \E t \in TaskIds : SendBroadcast(t)
    \/ \E t \in TaskIds : SendAfterEmit(t)

SpecRemoved == InitRemoved /\ [][NextRemoved]_vars

\* --- joins from a registered and from an unregistered connection, naming
\* a room of the user, a room of somebody else or no room at all, a
\* malformed id or none; no connection is in a group at the start

InitGate == \E second \in {NoRoom, BobsRoom} : Serving(second, {}, {"h1"})

GateRoomIds == {RoomOne, RoomTwo, Malformed, None}

NextGate ==
    \/ \E h \in Handles, r \in GateRoomIds : JoinStart(h, r)
    \/ \E t \in TaskIds : JoinFindRoom(t)

SpecGate == InitGate /\ [][NextGate]_vars

\* --- the owner deletes the first room while sends to it are in flight,
\* one of them with a mention

InitDelete == Running(NoRoom, Handles)

NextDelete ==
    \/ DeleteStart(RoomOne, Alice)
    \/ SendStart("h2", RoomOne, PlainText)
    \/ NextSlot <= MaxMentionSends /\ SendStart("h1", RoomOne, MentionText)
    \/ \E t \in TaskIds : GocFind(t)
    \/ \E t \in TaskIds : DeleteFindRoom(t)
    \/ \E t \in TaskIds : DeleteMany(t)
    \/ \E t \in TaskIds : DeleteOne(t)
    \/ \E t \in TaskIds : SendFindRoom(t)
    \/ \E t \in TaskIds : SendInsert(t)
    \/ \E t \in TaskIds : SendBroadcast(t)
    \/ \E t \in TaskIds : SendAfterEmit(t)
    \/ \E t \in TaskIds : GenerateReturns(t, << "o", "k" >>)
    \/ \E t \in TaskIds : AiInsert(t)
    \/ \E t \in TaskIds : AiBroadcast(t)

SpecDelete == InitDelete /\ [][NextDelete]_vars

\* --- room administration: a room is created, the first room is updated by
\* its owner with a list that leaves the owner out, and participants are
\* added and removed, the owner among them

InitOwner == Running(NoRoom, {})

Carol == << "c" >>

NextOwner ==
    \/ CreateStart(<< "n" >>, << Alice, << " " >> >>, << "b", " " >>)
    \/ UpdateStart(RoomOne, None, << Carol >>, Alice)
    \/ AddStart(RoomOne, Bob, Alice)
    \/ \E p \in {Alice, Bob} : RemoveStart(RoomOne, p, Alice)
    \/ \E t \in TaskIds : GocFind(t)
    \/ \E t \in TaskIds : CreateCheckUser(t)
    \/ \E t \in TaskIds : CreateInsert(t)
    \/ \E t \in TaskIds : UpdateFindRoom(t)
    \/ \E t \in TaskIds : UpdateGocFind(t)
    \/ \E t \in TaskIds : UpdateGocInsert(t)
    \/ \E t \in TaskIds : UpdateSet(t)
    \/ \E t \in TaskIds : AddFindRoom(t)
    \/ \E t \in TaskIds : AddFindUser(t)
    \/ \E t \in TaskIds : AddPush(t)
    \/ \E t \in TaskIds : RemoveFindRoom(t)
    \/ \E t \in TaskIds : RemovePull(t)
    \/ \E t \in TaskIds : RemoveRefetch(t)

SpecOwner == InitOwner /\ [][NextOwner]_vars

\* --------------------------------------------------------------- claims

EventsOf(t) == {i \in 1..Len(emitted) : emitted[i].task = t}
MessagesOf(t) == {k \in 1..Len(messages) : messages[k].task = t}
Broadcasts == {i \in 1..Len(emitted) : emitted[i].event = "new_message"}
IsSend(t) == tasks[t].op = "send_message"
IsReply(k) == messages[k].sender_username = AssistantName

\* the user message whose mention the reply k answers
TriggersOf(k) ==
    {j \in 1..Len(messages) : messages[j].task = messages[k].task /\ ~IsReply(j)}

\* C1: a send whose authorization read finds no room, or a room without the
\* sender's username, inserts no message, broadcasts nothing and emits
\* exactly one event: an error addressed to the sender's own connection
C1_UnauthorizedSendRejected ==
    \A t \in TaskIds :
        (IsSend(t) /\ tasks[t].denied) =>
            /\ Finished(t)
            /\ MessagesOf(t) = {}
            /\ Cardinality(EventsOf(t)) = 1
            /\ \A i \in EventsOf(t) :
                 /\ emitted[i].event = "error"
                 /\ emitted[i].sid = tasks[t].sid
                 /\ emitted[i].room = None
                 /\ emitted[i].rcpt \subseteq {tasks[t].sid}

C1_Witness ==
    \E t \in TaskIds :
        /\ IsSend(t) /\ tasks[t].denied
        /\ tasks[t].result = "Not a participant of this room"
        /\ Len(messages) > 0

\* C2: every sid in a broadcast group is a connection the server holds, and
\* every emit is delivered only to connections the server held when it was
\* made: nothing reaches a connection whose disconnect has been processed
C2_GroupsHoldLiveConnections ==
    /\ \A r \in DOMAIN groups : groups[r] \subseteq Open
    /\ \A i \in 1..Len(emitted) : emitted[i].rcpt \subseteq emitted[i].open

\* a join suspended on its room lookup when the disconnect arrived, and a
\* broadcast made after the disconnect that reached the other connection
C2_Witness ==
    \E t \in TaskIds, i \in Broadcasts :
        /\ tasks[t].op = "join_room" /\ tasks[t].result = "KeyError"
        /\ tasks[t].sid \notin emitted[i].open
        /\ emitted[i].rcpt # {}

\* C3: the broadcasts of one room's messages are made in the order of their
\* inserts
C3_BroadcastInInsertOrder ==
    \A i, j \in Broadcasts :
        (i < j /\ ObjectIdOf(emitted[i].room) = ObjectIdOf(emitted[j].room))
            => emitted[i].msg < emitted[j].msg

\* C4: an assistant reply is inserted only after its trigger was inserted
\* and broadcast, and broadcast only after the trigger's broadcast
C4_ReplyAfterTrigger ==
    \A k \in 1..Len(messages) :
        IsReply(k) =>
            /\ TriggersOf(k) # {}
            /\ \A j \in TriggersOf(k) :
                 /\ j < k
                 /\ \E i \in Broadcasts : emitted[i].msg = j
                 /\ \A ik \in Broadcasts : emitted[ik].msg = k =>
                        \E ij \in Broadcasts : emitted[ij].msg = j /\ ij < ik

C4_Witness ==
    \E k \in 1..Len(messages), ik \in Broadcasts :
        IsReply(k) /\ emitted[ik].msg = k /\ emitted[ik].rcpt # {}

\* C5: a send whose user message has been broadcast completes, whether or
\* not the generation call returns
C5_SendCompletesWithoutReply ==
    \A t \in TaskIds : (tasks[t].pc = "emitted") ~> Finished(t)

\* C6: a valid send to the second room is persisted and broadcast, whether
\* or not a generation call for the first room returns
C6_OtherRoomProgress ==
    \A t \in TaskIds :
        (IsSend(t) /\ tasks[t].room_id = RoomTwo /\ tasks[t].pc = "find_room")
            ~> (\E i \in Broadcasts : emitted[i].task = t)

\* C7: a join or send that starts when the store no longer lists its
\* username in the room is rejected as a non-participant: it enters no
\* group, inserts nothing and broadcasts nothing, whatever the connection
\* did before
C7_RevokedIsRejected ==
    \A t \in TaskIds :
        (tasks[t].op \in {"join_room", "send_message"} /\ tasks[t].revoked) =>
            /\ tasks[t].pc \in {"find_room", "done"}
            /\ tasks[t].inserted_id = 0
            /\ Finished(t) => tasks[t].result = "Not a participant of this room"
            /\ MessagesOf(t) = {}
            /\ \A i \in EventsOf(t) : emitted[i].event = "error"

C7_Witness ==
    \E t0, t \in TaskIds :
        /\ t0 < t
        /\ tasks[t0].sid = tasks[t].sid
        /\ tasks[t0].result = "sent"
        /\ IsSend(t) /\ tasks[t].revoked /\ Finished(t)
        /\ tasks[t].sid \in groups[tasks[t].room_id]

\* the task called get_or_create_user and the call is over
Resolved(t) ==
    tasks[t].op \in {"connect", "get_me"} /\ tasks[t].storeOps > 0 /\ Finished(t)

\* C8: no username has two User documents, and a username some call of
\* get_or_create_user is over for has exactly one
C8_OneUserPerUsername ==
    /\ \A i, j \in 1..Len(users) : users[i].username = users[j].username => i = j
    /\ \A t \in TaskIds : Resolved(t) => UserCount(tasks[t].username) = 1

\* two calls that both found no user and both tried the insert
C8_Witness ==
    \E t1, t2 \in TaskIds :
        /\ t1 # t2 /\ Resolved(t1) /\ Resolved(t2)
        /\ tasks[t1].username = tasks[t2].username
        /\ tasks[t1].storeOps = 2 /\ tasks[t2].storeOps = 2

\* C9: no call of get_or_create_user ends with the duplicate-key failure,
\* and every connect that asserted a username is accepted
C9_DuplicateKeyNotPropagated ==
    \A t \in TaskIds :
        Resolved(t) =>
            /\ tasks[t].result # "DuplicateKeyError"
            /\ tasks[t].op = "connect" => tasks[t].result = "accepted"

\* the request carries no username: absent, or nothing but whitespace
NoUsername(raw) == raw = None \/ \A i \in 1..Len(raw) : raw[i] \in Whitespace

\* C10: a connect without a username is rejected with no store operation
\* issued, and its sid has no entry in the session registry
C10_NoUsernameRejected ==
    \A t \in TaskIds :
        (tasks[t].op = "connect" /\ NoUsername(tasks[t].raw)) =>
            /\ tasks[t].result = "rejected"
            /\ tasks[t].storeOps = 0
            /\ sid_to_username[tasks[t].sid] = None
            /\ conn[tasks[t].sid] = "closed"

C10_Witness ==
    \E t \in TaskIds :
        /\ tasks[t].op = "connect" /\ tasks[t].raw = << " " >>
        /\ tasks[t].result = "rejected"
        /\ Len(users) > 0

\* C11: a send whose text is empty or blank issues no store operation,
\* inserts no message, broadcasts nothing and emits exactly one event, an
\* error to the sender's own connection; the error is the empty-text one when
\* the connection is registered and the room_id is present
C11_EmptyTextRejected ==
    \A t \in TaskIds :
        (IsSend(t) /\ NoUsername(tasks[t].raw)) =>
            /\ Finished(t)
            /\ tasks[t].storeOps = 0
            /\ MessagesOf(t) = {}
            /\ Cardinality(EventsOf(t)) = 1
            /\ \A i \in EventsOf(t) :
                 /\ emitted[i].event = "error"
                 /\ emitted[i].sid = tasks[t].sid
                 /\ emitted[i].rcpt = {tasks[t].sid}
            /\ (Truthy(tasks[t].username) /\ Truthy(tasks[t].room_id)) =>
                    tasks[t].result = "text cannot be empty"

\* a blank text with a malformed room_id from the registered connection, one
\* from the unregistered connection, and a message of another send persisted
C11_Witness ==
    \E t1, t2 \in TaskIds :
        /\ IsSend(t1) /\ tasks[t1].raw = << " ", " " >>
        /\ tasks[t1].room_id = Malformed
        /\ tasks[t1].result = "text cannot be empty"
        /\ IsSend(t2) /\ NoUsername(tasks[t2].raw)
        /\ tasks[t2].result = "Not authenticated"
        /\ Len(messages) > 0

\* the assistant's messages of the send t
RepliesOf(t) == {k \in MessagesOf(t) : IsReply(k)}

\* C12: a send whose generation call raised emits no error event; the reply
\* it inserts is the fallback text from the assistant; and when the send is
\* over it has inserted exactly one such reply and broadcast it once, as a
\* new_message to the group of the send's room
C12_FallbackReplyDelivered ==
    \A t \in TaskIds :
        (IsSend(t) /\ tasks[t].gen_failed) =>
            /\ \A i \in EventsOf(t) : emitted[i].event = "new_message"
            /\ \A k \in RepliesOf(t) :
                 /\ messages[k].text = FallbackText
                 /\ messages[k].room_id = ObjectIdOf(tasks[t].room_id)
            /\ Finished(t) =>
                 /\ tasks[t].result = "sent"
                 /\ Cardinality(RepliesOf(t)) = 1
                 /\ \A k \in RepliesOf(t) :
                      /\ Cardinality({i \in EventsOf(t) : emitted[i].msg = k}) = 1
                      /\ \A i \in EventsOf(t) : emitted[i].msg = k =>
                           /\ emitted[i].room = tasks[t].room_id
                           /\ emitted[i].rcpt = groups[tasks[t].room_id]

C12_Witness ==
    \E t \in TaskIds, i \in Broadcasts :
        /\ IsSend(t) /\ tasks[t].gen_failed /\ Finished(t)
        /\ emitted[i].task = t
        /\ IsReply(emitted[i].msg)
        /\ emitted[i].rcpt = Handles

\* the messages users sent that mention the assistant
MentionSends ==
    {j \in 1..Len(messages) :
        ~IsReply(j) /\ MentionsAssistant(messages[j].text)}

\* C13: a send inserts at most one assistant message, and only after its own
\* user message, which mentions the assistant; the assistant messages are
\* never more than the user messages that mention the assistant; and a send
\* whose reply is broadcast is over, whatever the reply's text
C13_NoRecursiveDispatch ==
    /\ \A t \in TaskIds :
         /\ Cardinality(RepliesOf(t)) <= 1
         /\ RepliesOf(t) # {} =>
              \E j \in MessagesOf(t) : j \in MentionSends
         /\ (\E i \in EventsOf(t) : IsReply(emitted[i].msg)) => Finished(t)
    /\ Cardinality({k \in 1..Len(messages) : IsReply(k)})
         <= Cardinality(MentionSends)

\* a reply whose text mentions the assistant was broadcast
C13_Witness ==
    \E t \in TaskIds, k \in 1..Len(messages) :
        /\ k \in RepliesOf(t)
        /\ MentionsAssistant(messages[k].text)
        /\ Finished(t)
        /\ \E i \in EventsOf(t) : emitted[i].msg = k /\ emitted[i].rcpt = Handles

\* the send t has passed its checks and its authorization read
Accepted(t) ==
    IsSend(t) /\ tasks[t].storeOps >= 2

\* C14: a send that passed validation and authorization inserts its message
\* once and is never inserted again, ends as sent after one broadcast, and no
\* broadcast reaches a connection that was closed when the broadcast was made
C14_SendSurvivesDisconnect ==
    /\ \A t \in TaskIds :
         Accepted(t) =>
            /\ Cardinality(MessagesOf(t)) = IF tasks[t].pc = "insert" THEN 0 ELSE 1
            /\ Finished(t) =>
                 /\ tasks[t].result = "sent"
                 /\ Cardinality(EventsOf(t)) = 1
                 /\ \A i \in EventsOf(t) : emitted[i].event = "new_message"
    /\ \A i \in Broadcasts : emitted[i].rcpt \subseteq emitted[i].open

\* a send that ended as sent, with its message in the store once, although
\* the sender and the other member of the group had both disconnected before
\* its broadcast was made
C14_Witness ==
    \E t \in TaskIds, i \in Broadcasts :
        /\ Accepted(t) /\ tasks[t].result = "sent"
        /\ emitted[i].task = t
        /\ emitted[i].open = {}
        /\ Cardinality(MessagesOf(t)) = 1

\* the insert of the send t failed
InsertFailed(t) == IsSend(t) /\ tasks[t].result = "PyMongoError"

\* C15: a send whose insert failed has emitted one error event to its own
\* connection and no new_message, has issued one insert at most, and has
\* left no message in the store
C15_InsertFailureReported ==
    \A t \in TaskIds :
        InsertFailed(t) =>
            /\ \E i \in EventsOf(t) :
                 emitted[i].event = "error" /\ emitted[i].sid = tasks[t].sid
            /\ \A i \in EventsOf(t) : emitted[i].event # "new_message"
            /\ tasks[t].storeOps <= 2
            /\ MessagesOf(t) = {}

\* what the code does keep of C15: a send whose insert failed has broadcast
\* nothing, has issued one insert and has left no message
C15_InsertFailureContained ==
    \A t \in TaskIds :
        InsertFailed(t) =>
            /\ EventsOf(t) = {}
            /\ tasks[t].storeOps = 2
            /\ MessagesOf(t) = {}

\* C16: a successful join of a connection that is already in the group it
\* names changes no group, and a successful join of a connection that is
\* already entered for the room leaves the room's connections as they were
C16_JoinIdempotent ==
    [][\A t \in TaskIds :
         (tasks[t].op = "join_room" /\ tasks[t].pc = "find_room"
            /\ tasks'[t].result = "joined") =>
            /\ tasks[t].sid \in groups[tasks[t].room_id] => groups' = groups
            /\ tasks[t].sid \in RoomGroup(ObjectIdOf(tasks[t].room_id)) =>
                 \A o \in RoomOids : RoomGroup(o)' = RoomGroup(o)]_vars

\* two joins of one connection to one group both succeeded, and a broadcast
\* made afterwards reached the connection
C16_Witness ==
    \E t0, t1, t2 \in TaskIds :
        /\ t0 < t1 /\ t1 < t2
        /\ tasks[t0].op = "join_room" /\ tasks[t0].result = "joined"
        /\ tasks[t1].op = "join_room" /\ tasks[t1].result = "joined"
        /\ tasks[t0].sid = tasks[t1].sid
        /\ tasks[t0].room_id = tasks[t1].room_id
        /\ tasks[t2].result = "sent"
        /\ \E i \in EventsOf(t2) : tasks[t0].sid \in emitted[i].rcpt

\* C17: a leave_room of a registered connection changes neither the store
\* nor the session registry nor the connection table; it takes the
\* connection out of the group it names and changes no other group; and
\* when the connection is not in that group no group changes
C17_LeaveFrame ==
    [][\A t \in TaskIds :
         (tasks[t].op = "idle" /\ tasks'[t].op = "leave_room"
            /\ Truthy(tasks'[t].username)) =>
            LET h == tasks'[t].sid
                r == tasks'[t].room_id
            IN /\ tasks'[t].result = "left"
               /\ store' = store
               /\ sid_to_username' = sid_to_username
               /\ conn' = conn
               /\ \A x \in DOMAIN groups :
                    groups'[x] = IF x = r THEN groups[x] \ {h} ELSE groups[x]
               /\ h \notin groups[r] => groups' = groups]_vars

\* a connection joined the room, left it under the spelling it had joined
\* with and also left it under the spelling it had not joined with; the other
\* connection is still in the group
C17_Witness ==
    \E t0, t1, t2 \in TaskIds :
        /\ t0 < t1
        /\ tasks[t0].op = "join_room" /\ tasks[t0].result = "joined"
        /\ tasks[t1].op = "leave_room" /\ tasks[t1].result = "left"
        /\ tasks[t2].op = "leave_room" /\ tasks[t2].result = "left"
        /\ tasks[t0].sid = tasks[t1].sid /\ tasks[t1].sid = tasks[t2].sid
        /\ tasks[t0].room_id = tasks[t1].room_id
        /\ tasks[t2].room_id # tasks[t1].room_id
        /\ tasks[t0].sid \notin groups[tasks[t0].room_id]
        /\ groups[RoomOne] = {"h2"}

\* the connection h has asked to leave a room
HasLeft(h) ==
    \E t \in TaskIds : tasks[t].op = "leave_room" /\ tasks[t].sid = h

\* C18: no step of remove_participant changes a broadcast group; a
\* connection that has not left is in the room's group and among the
\* recipients of every broadcast to the room, whether or not its user is
\* still a participant; and a send that started after its user was removed
\* is rejected and inserts nothing
C18_RemovalKeepsGroups ==
    /\ [][(\E t \in TaskIds :
             tasks'[t].op = "remove_participant" /\ tasks'[t] # tasks[t])
            => groups' = groups]_vars
    /\ [](\A h \in Handles :
            ~HasLeft(h) =>
                /\ h \in groups[RoomOne]
                /\ \A i \in Broadcasts : h \in emitted[i].rcpt)
    /\ [](\A t \in TaskIds :
            (IsSend(t) /\ tasks[t].revoked /\ Finished(t)) =>
                /\ tasks[t].result = "Not a participant of this room"
                /\ MessagesOf(t) = {})

\* Bob was removed, his send was then rejected, and a broadcast of Alice's
\* made after that rejection still reached Bob's connection
C18_Witness ==
    \E t1, t2 \in TaskIds, i \in Broadcasts :
        /\ ~IsParticipant(Bob, rooms[ObjectIdOf(RoomOne)])
        /\ IsSend(t1) /\ tasks[t1].sid = "h2"
        /\ tasks[t1].result = "Not a participant of this room"
        /\ emitted[i].task = t2 /\ tasks[t2].sid = "h1"
        /\ \E e \in EventsOf(t1) : e < i
        /\ "h2" \in emitted[i].rcpt
        /\ "h2" \in groups[RoomOne]

\* C19: a send that passed its checks and is over has left exactly one
\* message, from the sender, and made exactly one new_message broadcast,
\* which reached every connection entered for the room, reached the sender's
\* own connection unless it had disconnected, and reached no connection that
\* was not entered for the room
C19_SendReachesRoom ==
    \A t \in TaskIds :
        (Accepted(t) /\ Finished(t)) =>
            /\ Cardinality(MessagesOf(t)) = 1
            /\ \A k \in MessagesOf(t) :
                 messages[k].sender_username = tasks[t].username
            /\ Cardinality(EventsOf(t)) = 1
            /\ \A i \in EventsOf(t) :
                 /\ emitted[i].event = "new_message"
                 /\ emitted[i].group \subseteq emitted[i].rcpt
                 /\ tasks[t].sid \in emitted[i].open =>
                        tasks[t].sid \in emitted[i].rcpt
                 /\ emitted[i].rcpt \subseteq emitted[i].group

\* the join t ended with the connection entered in the group
Joined(t) == tasks[t].op = "join_room" /\ tasks[t].result = "joined"

\* the join t failed a check: no registry entry, no or a malformed room_id,
\* no such room, or a room without the username
FailsGate(t) ==
    /\ tasks[t].op = "join_room"
    /\ \/ ~Truthy(tasks[t].username)
       \/ ~Truthy(tasks[t].room_id)
       \/ ~IsObjectIdString(tasks[t].room_id)
       \/ tasks[t].denied

\* C20: a connection is in a group only if a join of that connection for
\* that room_id ended joined, having found the connection registered and the
\* room in the store with the username among its participants; a join that
\* fails a check ends with one error event and no joined_room; and the only
\* step that changes a group is the step that ends a join as joined
C20_GroupsOnlyThroughGate ==
    /\ [](\A r \in DOMAIN groups : \A h \in groups[r] :
            \E t \in TaskIds :
                /\ Joined(t) /\ ~FailsGate(t)
                /\ tasks[t].sid = h /\ tasks[t].room_id = r
                /\ sid_to_username[h] = tasks[t].username)
    /\ [](\A t \in TaskIds :
            FailsGate(t) =>
                /\ Finished(t) /\ ~Joined(t)
                /\ Cardinality(EventsOf(t)) = 1
                /\ \A i \in EventsOf(t) : emitted[i].event = "error")
    /\ [][groups' # groups =>
            \E t \in TaskIds : ~Joined(t) /\ Joined(t)' /\ ~FailsGate(t)']_vars

\* one join entered its connection; another, of the same connection, was
\* refused for a room of somebody else; a third came from the connection
\* without a registry entry
C20_Witness ==
    \E t1, t2, t3 \in TaskIds :
        /\ Joined(t1) /\ tasks[t1].sid \in groups[tasks[t1].room_id]
        /\ tasks[t2].op = "join_room" /\ tasks[t2].sid = tasks[t1].sid
        /\ tasks[t2].result = "Not a participant of this room"
        /\ tasks[t3].op = "join_room"
        /\ tasks[t3].result = "Not authenticated"
        /\ UNION {groups[r] : r \in DOMAIN groups} = {tasks[t1].sid}

\* C21: every sid with an entry in the session registry is a connection the
\* server holds; a sid whose disconnect was processed has no entry
C21_RegistryHoldsLiveConnections ==
    \A h \in Handles : sid_to_username[h] # None => conn[h] = "open"

\* the documents the messages collection holds
StoredMessages == {k \in 1..Len(messages) : messages[k] # Deleted}

\* C22: every message in the store was inserted while the store held its
\* room; and when no handler is in flight every message in the store is of a
\* room the store holds
C22_MessagesReferenceRooms ==
    /\ \A k \in StoredMessages : messages[k].room_existed
    /\ (\A t \in TaskIds : ~InFlight(t)) =>
         \A k \in StoredMessages : rooms[messages[k].room_id].exists

\* C23: every message in the store, the assistant's included, has a text
\* that is not empty after trimming
C23_MessageTextNonEmpty ==
    \A k \in StoredMessages : Strip(messages[k].text) # << >>

\* C24: the owner of every room in the store is among its participants; no
\* step changes the owner of a room or takes a room away; and a room that
\* appears is owned by the caller of a create_room
C24_OwnerStaysParticipant ==
    /\ [](\A o \in RoomOids :
            rooms[o].exists => IsParticipant(rooms[o].owner_username, rooms[o]))
    /\ [][\A o \in RoomOids :
            /\ rooms[o].exists =>
                 /\ rooms'[o].exists
                 /\ rooms'[o].owner_username = rooms[o].owner_username
            /\ (~rooms[o].exists /\ rooms'[o].exists) =>
                 \E t \in TaskIds :
                     /\ tasks[t].op = "create_room"
                     /\ rooms'[o].owner_username = tasks[t].username]_vars

\* the owner's update left the owner out of its list and was written; Bob
\* created a room of his own; and the removal of the owner was refused
C24_Witness ==
    \E t1, t2, t3 \in TaskIds :
        /\ tasks[t1].op = "update_room" /\ tasks[t1].result = "200"
        /\ IsParticipant(Carol, rooms[ObjectIdOf(RoomOne)])
        /\ tasks[t2].op = "create_room" /\ tasks[t2].result = "200"
        /\ rooms[ObjectIdOf(RoomTwo)].owner_username = Bob
        /\ tasks[t3].op = "remove_participant" /\ tasks[t3].result = "400"
        /\ tasks[t3].participant_username = Alice

====
